---- MODULE Spec2Model ----
(***************************************************************************)
(* State-machine model of main.py: WiFi association, watchdog arming,      *)
(* MQTT connect, and the publish / wait loop in which watchdog_task()      *)
(* probes the broker once per second and feeds the WDT on success.         *)
(*                                                                         *)
(* Time is counted in seconds.  Only time.sleep(1) and a blocked network   *)
(* call (Stall) let time pass; the hardware watchdog resets the device as  *)
(* soon as the time since the last feed (or since arming) reaches the      *)
(* armed timeout.  One behaviour of the model is one boot of the device.   *)
(***************************************************************************)
EXTENDS Integers, Sequences, FiniteSets, TLC

\* Largest config.PUBLISH_INTERVAL explored (larger than the WDT timeout).
MaxInterval == 6

\* Number of negative config.PUBLISH_INTERVAL values explored (-1 .. -NegIntervals).
NegIntervals == 1

\* WDT(timeout=5000): the watchdog timeout, in seconds.
WDT_TIMEOUT == 5

\* for _ in range(10): number of WiFi association attempts.
WIFI_RETRIES == 10

VARIABLES
    pc,               \* position of the single thread of control
    PUBLISH_INTERVAL, \* config.PUBLISH_INTERVAL (fixed for the boot)
    SENSOR_IN_USE,    \* config.SENSOR_IN_USE (fixed for the boot)
    wifi_try,         \* iterations of the WiFi loop done so far
    wlan_connected,   \* wlan.isconnected() as last observed
    wdt_timeout,      \* armed watchdog timeout, 0 while not armed
    unfed,            \* seconds since the watchdog was armed or last fed
    interval,         \* the wait loop's counter
    ev,               \* history: the last operation the program performed
    done,             \* history: kinds of operation performed in this boot
    probeResult,      \* history: outcome of the latest link probe
    feedsSinceProbe,  \* history: wdt.feed() calls since the latest probe
    pubs,             \* history: publish() calls of the current cycle
    sleeps,           \* history: time.sleep(1) calls of the current wait cycle
    probes,           \* history: watchdog_task() calls of the current wait cycle
    feeds,            \* history: wdt.feed() calls of the current wait cycle
    reachables,       \* history: Reachable probes of the current wait cycle
    waited,           \* history: a wait cycle has been started in this boot
    stalled,          \* history: some network call blocked for a second or more
    probesAllOk,      \* history: every probe so far reported Reachable
    fault,            \* history: what ended the normal flow, "none" if nothing
    connectCalls,     \* history: mqtt_client.connect() calls
    disconnectCalls,  \* history: mqtt_client.disconnect() calls
    resetRequests     \* history: machine.reset() calls

config == <<PUBLISH_INTERVAL, SENSOR_IN_USE>>
wlan   == <<wifi_try, wlan_connected>>
wdt    == <<wdt_timeout, unfed>>
tick   == <<probeResult, feedsSinceProbe>>
cycle  == <<sleeps, probes, feeds, reachables, waited>>
calls  == <<connectCalls, disconnectCalls, resetRequests>>
flags  == <<stalled, probesAllOk>>

vars == <<pc, config, wlan, wdt, interval, ev, done, tick, pubs, cycle,
          flags, fault, calls>>

\* Positions at which the program is inside a blocking network call.
Blocking == {"connect", "pub_telemetry", "pub_measurement", "probe", "disconnect"}

\* Positions after which nothing more is executed in this boot.
ResetStates == {"sw_reset", "hw_reset"}

Running == pc \notin ResetStates

\* The hardware countdown: one more second without a feed reaches the timeout.
Expires == wdt_timeout > 0 /\ unfed + 1 >= wdt_timeout

Init ==
    /\ pc = "wifi"
    /\ PUBLISH_INTERVAL \in (0 - NegIntervals)..MaxInterval
    /\ SENSOR_IN_USE \in BOOLEAN
    /\ wifi_try = 0
    /\ wlan_connected = FALSE
    /\ wdt_timeout = 0
    /\ unfed = 0
    /\ interval = 0
    /\ ev = "boot"
    /\ done = {}
    /\ probeResult = "none"
    /\ feedsSinceProbe = 0
    /\ pubs = <<>>
    /\ sleeps = 0
    /\ probes = 0
    /\ feeds = 0
    /\ reachables = 0
    /\ waited = FALSE
    /\ stalled = FALSE
    /\ probesAllOk = TRUE
    /\ fault = "none"
    /\ connectCalls = 0
    /\ disconnectCalls = 0
    /\ resetRequests = 0

\* One iteration of the WiFi loop: connect, sleep, test isconnected().
WifiAttempt(ok) ==
    /\ pc = "wifi"
    /\ wifi_try < WIFI_RETRIES
    /\ wifi_try' = wifi_try + 1
    /\ wlan_connected' = ok
    /\ pc' = IF ok \/ wifi_try + 1 = WIFI_RETRIES THEN "arm" ELSE "wifi"
    /\ ev' = "wifi"
    /\ UNCHANGED <<config, wdt, interval, done, tick, pubs, cycle,
                   flags, fault, calls>>

\* wdt = WDT(timeout=5000)
ArmWdtLong ==
    /\ pc = "arm"
    /\ wdt_timeout' = WDT_TIMEOUT + 3
    /\ unfed' = 0
    /\ pc' = "connect"
    /\ ev' = "arm"
    /\ UNCHANGED <<config, wlan, interval, done, tick, pubs, cycle,
                   flags, fault, calls>>

\* The watchdog is left unarmed.
ArmWdtSkip ==
    /\ pc = "arm"
    /\ pc' = "connect"
    /\ ev' = "arm"
    /\ UNCHANGED <<config, wlan, wdt, interval, done, tick, pubs, cycle,
                   flags, fault, calls>>

ArmWdt ==
    /\ pc = "arm"
    /\ wdt_timeout' = WDT_TIMEOUT
    /\ unfed' = 0
    /\ pc' = "connect"
    /\ ev' = "arm"
    /\ UNCHANGED <<config, wlan, interval, done, tick, pubs, cycle,
                   flags, fault, calls>>

\* mqtt_client.connect() succeeds; the program goes on to the sensor set-up.
ConnectOk ==
    /\ pc = "connect"
    /\ connectCalls' = connectCalls + 1
    /\ done' = done \cup {"connect"}
    /\ pc' = IF SENSOR_IN_USE THEN "sensor_init" ELSE "loop_top"
    /\ ev' = "connect_ok"
    /\ UNCHANGED <<config, wlan, wdt, interval, tick, pubs, cycle,
                   flags, fault, disconnectCalls, resetRequests>>

\* A variant of the except: branch that prints and carries on.
ConnectFailContinue ==
    /\ pc = "connect"
    /\ connectCalls' = connectCalls + 1
    /\ done' = done \cup {"connect"}
    /\ fault' = "connect"
    /\ pc' = IF SENSOR_IN_USE THEN "sensor_init" ELSE "loop_top"
    /\ ev' = "connect_fail"
    /\ UNCHANGED <<config, wlan, wdt, interval, tick, pubs, cycle,
                   flags, disconnectCalls, resetRequests>>

\* mqtt_client.connect() raises: except: print, machine.reset().
ConnectFail ==
    /\ pc = "connect"
    /\ connectCalls' = connectCalls + 1
    /\ done' = done \cup {"connect"}
    /\ fault' = "connect"
    /\ resetRequests' = resetRequests + 1
    /\ pc' = "sw_reset"
    /\ ev' = "connect_fail"
    /\ UNCHANGED <<config, wlan, wdt, interval, tick, pubs, cycle,
                   flags, disconnectCalls>>

\* dht20 = dht20.DHT20(0x38, i2c0), outside any try: a raise ends the script.
SensorInit(ok) ==
    /\ pc = "sensor_init"
    /\ pc' = IF ok THEN "loop_top" ELSE "terminated"
    /\ fault' = IF ok THEN fault ELSE "sensor_init"
    /\ ev' = "sensor_init"
    /\ UNCHANGED <<config, wlan, wdt, interval, done, tick, pubs, cycle,
                   flags, calls>>

\* Entry of the finally: block, where every exit of the main loop lands.
UnwindSkipDisconnect == "machine_reset"

Unwind == "disconnect"

\* Top of while True: read the measurements and build the telemetry message.
\* A raise while reading the sensor is caught by except Exception.
LoopTop(ok) ==
    /\ pc = "loop_top"
    /\ ok \/ SENSOR_IN_USE
    /\ pubs' = <<>>
    /\ pc' = IF ok THEN "pub_telemetry" ELSE Unwind
    /\ fault' = IF ok THEN fault ELSE "sensor"
    /\ ev' = "loop_top"
    /\ UNCHANGED <<config, wlan, wdt, interval, done, tick, cycle,
                   flags, calls>>

\* mqtt_publish(): on success control returns to the caller, which goes on
\* at nxt; on any exception it logs and calls sys.exit(), whose SystemExit
\* passes except Exception and lands in the finally: block.
AfterPublishSwallow(ok, nxt) == nxt

\* A failed publish answered by connecting again.
AfterPublishReconnect(ok, nxt) == IF ok THEN nxt ELSE "connect"

AfterPublish(ok, nxt) == IF ok THEN nxt ELSE Unwind

\* while interval < config.PUBLISH_INTERVAL
WaitTestInclusive(i) == IF i <= PUBLISH_INTERVAL THEN "sleep" ELSE "loop_top"

WaitTest(i) == IF i < PUBLISH_INTERVAL THEN "sleep" ELSE "loop_top"

\* config.MQTT_CLIENT_ID, config.DEVICE_TYPE and config.VERSION as they appear
\* in the message header (the configuration is fixed for the boot).
MQTT_CLIENT_ID == "<MQTT_CLIENT_ID>"

DEVICE_TYPE == "<DEVICE_TYPE>"

VERSION == "<VERSION>"

\* The telemetry field strings the main loop can build:
\* uptime="...",internal_temperature=...,MAC_address="...",IP_address="..."
\* Strings are sequences of pieces; formatting concatenates them.
TelemetryMessages ==
    { <<"uptime=", up, ",internal_temperature=", "27.0", ",MAC_address=",
        "<mac>", ",IP_address=", "<ip>">> : up \in {"0:00:00:00", "0:00:00:07"} }

\* The measurement field strings: temperature=<t:.1f>,humidity=<rh:.1f>
MeasurementMessages ==
    { <<"temperature=", t, ",humidity=", "50.0">> : t \in {"21.0"} }

\* A header that also carries the wait loop's counter.
MqttMessageWithCounter(category, message) ==
    <<category, ",deviceId=", MQTT_CLIENT_ID, ",deviceType=", DEVICE_TYPE,
      ",deviceVersion=", VERSION, ",seq=", interval, " ">> \o message

\* m = f"{category},deviceId={config.MQTT_CLIENT_ID},deviceType=
\*       {config.DEVICE_TYPE},deviceVersion={config.VERSION} {message}"
MqttMessage(category, message) ==
    <<category, ",deviceId=", MQTT_CLIENT_ID, ",deviceType=", DEVICE_TYPE,
      ",deviceVersion=", VERSION, " ">> \o message

\* A telemetry publish that also feeds the watchdog.
PublishTelemetryFeeds(ok, message) ==
    /\ pc = "pub_telemetry"
    /\ pubs' = Append(pubs, [category |-> "telemetry", ok |-> ok,
                             message |-> message,
                             m |-> MqttMessage("telemetry", message)])
    /\ done' = done \cup {"publish"}
    /\ fault' = IF ok THEN fault ELSE "publish"
    /\ pc' = AfterPublish(ok, "pub_measurement")
    /\ ev' = IF ok THEN "publish_ok" ELSE "publish_fail"
    /\ unfed' = IF ok THEN 0 ELSE unfed
    /\ UNCHANGED <<config, wlan, wdt_timeout, interval, tick, cycle, flags,
                   calls>>

\* mqtt_publish(mqtt_publish_topic, "telemetry", ...)
PublishTelemetry(ok, message) ==
    /\ pc = "pub_telemetry"
    /\ pubs' = Append(pubs, [category |-> "telemetry", ok |-> ok,
                             message |-> message,
                             m |-> MqttMessage("telemetry", message)])
    /\ done' = done \cup {"publish"}
    /\ fault' = IF ok THEN fault ELSE "publish"
    /\ pc' = AfterPublish(ok, "pub_measurement")
    /\ ev' = IF ok THEN "publish_ok" ELSE "publish_fail"
    /\ UNCHANGED <<config, wlan, wdt, interval, tick, cycle, flags,
                   calls>>

\* mqtt_publish(mqtt_publish_topic, "measurement", ...); interval = 0 and
\* the first test of the wait loop.
PublishMeasurement(ok, message) ==
    /\ pc = "pub_measurement"
    /\ pubs' = Append(pubs, [category |-> "measurement", ok |-> ok,
                             message |-> message,
                             m |-> MqttMessage("measurement", message)])
    /\ done' = done \cup {"publish"}
    /\ fault' = IF ok THEN fault ELSE "publish"
    /\ pc' = AfterPublish(ok, WaitTest(0))
    /\ ev' = IF ok THEN "publish_ok" ELSE "publish_fail"
    /\ IF pc' \in {"sleep", "loop_top"}
         THEN /\ interval' = 0
              /\ sleeps' = 0 /\ probes' = 0 /\ feeds' = 0 /\ reachables' = 0
              /\ waited' = TRUE
         ELSE UNCHANGED <<interval, cycle>>
    /\ UNCHANGED <<config, wlan, wdt, tick, flags, calls>>

\* time.sleep(1): one second passes; the watchdog may expire meanwhile.
Sleep ==
    /\ pc = "sleep"
    /\ unfed' = unfed + 1
    /\ sleeps' = sleeps + 1
    /\ done' = done \cup {"sleep"}
    /\ pc' = IF Expires THEN "hw_reset" ELSE "probe"
    /\ ev' = "sleep"
    /\ UNCHANGED <<config, wlan, wdt_timeout, interval, tick, pubs,
                   probes, feeds, reachables, waited, flags, fault, calls>>

\* watchdog_task(): getaddrinfo, socket, connect and close all succeed.
ProbeOk ==
    /\ pc = "probe"
    /\ probeResult' = "Reachable"
    /\ feedsSinceProbe' = 0
    /\ probes' = probes + 1
    /\ reachables' = reachables + 1
    /\ done' = done \cup {"probe"}
    /\ pc' = "feed"
    /\ ev' = "probe_ok"
    /\ UNCHANGED <<config, wlan, wdt, interval, pubs, sleeps, feeds,
                   waited, flags, fault, calls>>

\* Where watchdog_task() goes on after except OSError: it logs and returns.
AfterOSErrorFeed == "feed"

\* An OSError that leaves the main loop.
AfterOSErrorUnwind == Unwind

AfterOSError == "tick_end"

\* watchdog_task(): one of the socket calls raises OSError.
ProbeOSError ==
    /\ pc = "probe"
    /\ probeResult' = "Unreachable"
    /\ feedsSinceProbe' = 0
    /\ probes' = probes + 1
    /\ probesAllOk' = FALSE
    /\ done' = done \cup {"probe"}
    /\ pc' = AfterOSError
    /\ ev' = "probe_oserror"
    /\ UNCHANGED <<config, wlan, wdt, interval, pubs, sleeps, feeds,
                   reachables, waited, stalled, fault, calls>>

\* watchdog_task(): an exception that is no OSError (getaddrinfo(...)[0] on
\* an empty result is an IndexError) leaves watchdog_task() and is caught by
\* the main loop's except Exception.
ProbeRaise ==
    /\ pc = "probe"
    /\ probeResult' = "Raised"
    /\ feedsSinceProbe' = 0
    /\ probes' = probes + 1
    /\ probesAllOk' = FALSE
    /\ done' = done \cup {"probe"}
    /\ fault' = "probe"
    /\ pc' = Unwind
    /\ ev' = "probe_raise"
    /\ UNCHANGED <<config, wlan, wdt, interval, pubs, sleeps, feeds,
                   reachables, waited, stalled, calls>>

\* A feed that leaves the countdown where it is.
WdtFeedNoReset ==
    /\ pc = "feed"
    /\ feedsSinceProbe' = feedsSinceProbe + 1
    /\ feeds' = feeds + 1
    /\ done' = done \cup {"feed"}
    /\ pc' = "tick_end"
    /\ ev' = "feed"
    /\ UNCHANGED <<config, wlan, wdt, interval, probeResult, pubs,
                   sleeps, probes, reachables, waited, flags, fault, calls>>

\* wdt.feed(): the countdown starts again.
WdtFeed ==
    /\ pc = "feed"
    /\ unfed' = 0
    /\ feedsSinceProbe' = feedsSinceProbe + 1
    /\ feeds' = feeds + 1
    /\ done' = done \cup {"feed"}
    /\ pc' = "tick_end"
    /\ ev' = "feed"
    /\ UNCHANGED <<config, wlan, wdt_timeout, interval, probeResult,
                   pubs, sleeps, probes, reachables, waited, flags, fault,
                   calls>>

\* interval = interval + 1, then the loop test.
TickEnd ==
    /\ pc = "tick_end"
    /\ interval' = interval + 1
    /\ pc' = WaitTest(interval + 1)
    /\ ev' = "tick_end"
    /\ UNCHANGED <<config, wlan, wdt, done, tick, pubs, cycle, flags,
                   fault, calls>>

\* finally: mqtt_client.disconnect().  If it raises, machine.reset() on the
\* next line is not reached and the script ends with the exception.
Disconnect(ok) ==
    /\ pc = "disconnect"
    /\ disconnectCalls' = disconnectCalls + 1
    /\ done' = done \cup {"disconnect"}
    /\ pc' = IF ok THEN "machine_reset" ELSE "terminated"
    /\ ev' = IF ok THEN "disconnect_ok" ELSE "disconnect_fail"
    /\ UNCHANGED <<config, wlan, wdt, interval, tick, pubs, cycle,
                   flags, fault, connectCalls, resetRequests>>

\* finally: machine.reset()
MachineReset ==
    /\ pc = "machine_reset"
    /\ resetRequests' = resetRequests + 1
    /\ pc' = "sw_reset"
    /\ ev' = "machine_reset"
    /\ UNCHANGED <<config, wlan, wdt, interval, done, tick, pubs,
                   cycle, flags, fault, connectCalls, disconnectCalls>>

\* A blocking network call takes one more second.
Stall ==
    /\ pc \in Blocking
    /\ unfed' = unfed + 1
    /\ stalled' = TRUE
    /\ pc' = IF Expires THEN "hw_reset" ELSE pc
    /\ UNCHANGED <<config, wlan, wdt_timeout, interval, ev, done, tick,
                   pubs, cycle, probesAllOk, fault, calls>>

\* The script has ended with an uncaught exception; the armed watchdog keeps
\* counting and nothing feeds it.
IdleTick ==
    /\ pc = "terminated"
    /\ unfed' = unfed + 1
    /\ pc' = IF Expires THEN "hw_reset" ELSE pc
    /\ UNCHANGED <<config, wlan, wdt_timeout, interval, ev, done, tick,
                   pubs, cycle, flags, fault, calls>>

\* The steps of the program itself.
Program ==
    \/ \E ok \in BOOLEAN : WifiAttempt(ok)
    \/ ArmWdt
    \/ ConnectOk
    \/ ConnectFail
    \/ \E ok \in BOOLEAN : SensorInit(ok)
    \/ \E ok \in BOOLEAN : LoopTop(ok)
    \/ \E ok \in BOOLEAN, message \in TelemetryMessages :
          PublishTelemetry(ok, message)
    \/ \E ok \in BOOLEAN, message \in MeasurementMessages :
          PublishMeasurement(ok, message)
    \/ Sleep
    \/ ProbeOk
    \/ ProbeOSError
    \/ ProbeRaise
    \/ WdtFeed
    \/ TickEnd
    \/ \E ok \in BOOLEAN : Disconnect(ok)
    \/ MachineReset

Next ==
    \/ Program
    \/ Stall
    \/ IdleTick

Spec == Init /\ [][Next]_vars

\* The program never stops of its own accord and time never stops: each
\* statement is eventually executed, and an idle device's watchdog runs out.
FairSpec == Spec /\ WF_vars(Program) /\ WF_vars(IdleTick)

(***************************************************************************)
(* Properties                                                              *)
(***************************************************************************)

\* C1: the watchdog is fed in a tick iff that tick's probe reported
\* Reachable: after a Reachable probe there is exactly one feed before the
\* next probe (none yet only while the feed is the next statement), after
\* any other probe outcome there is none, and there are never two feeds
\* without a probe between them.
C1_FeedIffReachable ==
    /\ feedsSinceProbe <= 1
    /\ feedsSinceProbe = 1 => probeResult = "Reachable"
    /\ probeResult = "Reachable" => (feedsSinceProbe = 1 \/ pc = "feed")
    /\ pc = "feed" => (probeResult = "Reachable" /\ feedsSinceProbe = 0)
    /\ probeResult # "Reachable" => feedsSinceProbe = 0

\* C1 witness: in one wait cycle a Reachable tick was fed, a later tick's
\* probe was Unreachable and got no feed, and the next probe is about to run.
C1_Witness ==
    /\ pc = "probe"
    /\ probeResult = "Unreachable"
    /\ feedsSinceProbe = 0
    /\ feeds = 1
    /\ probes = 2

\* C2: for PUBLISH_INTERVAL >= 1 a wait cycle runs exactly PUBLISH_INTERVAL
\* ticks, each one sleep followed by one probe: never more ticks than that,
\* and the program is back in the publish phase only after exactly that many.
C2_ExactlyNTicks ==
    PUBLISH_INTERVAL >= 1 =>
        /\ sleeps <= PUBLISH_INTERVAL
        /\ probes <= sleeps
        /\ sleeps <= probes + 1
        /\ pc = "sleep" => (sleeps = probes /\ sleeps < PUBLISH_INTERVAL)
        /\ (waited /\ pc \in {"loop_top", "pub_telemetry", "pub_measurement"})
              => (sleeps = PUBLISH_INTERVAL /\ probes = PUBLISH_INTERVAL)

\* C2 witness: back at the top of the loop after a wait cycle of 3 ticks.
C2_Witness ==
    /\ PUBLISH_INTERVAL = 3
    /\ waited
    /\ pc = "loop_top"
    /\ sleeps = 3
    /\ probes = 3

\* C3: a publish phase issues telemetry first and measurement second, at
\* most these two; measurement is issued only after telemetry succeeded,
\* and the wait cycle is entered only after both succeeded.
C3_PublishOrder ==
    /\ Len(pubs) <= 2
    /\ Len(pubs) >= 1 => pubs[1].category = "telemetry"
    /\ Len(pubs) = 2 => (pubs[2].category = "measurement" /\ pubs[1].ok)
    /\ pc = "pub_telemetry" => pubs = <<>>
    /\ pc = "pub_measurement" => (Len(pubs) = 1 /\ pubs[1].ok)
    /\ pc \in {"sleep", "probe", "feed", "tick_end"}
          => (Len(pubs) = 2 /\ pubs[1].ok /\ pubs[2].ok)

\* C3 witness: in the wait cycle of a second or later publish phase.
C3_Witness ==
    /\ pc = "sleep"
    /\ "feed" \in done
    /\ interval = 0
    /\ Len(pubs) = 2
    /\ pubs[2].ok

\* C4: after a failed publish() nothing but disconnect() and machine.reset()
\* is executed, and once the script has stopped, disconnect() has been called
\* and exactly one reset request has been issued.
C4_PublishFailureResets ==
    fault = "publish" =>
        /\ ev \in {"publish_fail", "disconnect_ok", "disconnect_fail",
                   "machine_reset"}
        /\ resetRequests <= 1
        /\ pc \in {"sw_reset", "terminated"}
              => (disconnectCalls = 1 /\ resetRequests = 1)

\* C5: a failed connect() at boot ends in exactly one reset request, with
\* no publish, wait tick, probe or feed in that boot.
C5_ConnectFailureResets ==
    fault = "connect" =>
        /\ pc = "sw_reset"
        /\ resetRequests = 1
        /\ connectCalls = 1
        /\ pubs = <<>>
        /\ done \cap {"publish", "sleep", "probe", "feed"} = {}

\* C5 witness: the boot ended by a failed connect().
C5_Witness ==
    /\ fault = "connect"
    /\ ev = "connect_fail"
    /\ pc = "sw_reset"

\* C6 as claimed: no reset request without a disconnect() call before it.
C6_DisconnectBeforeEveryReset ==
    resetRequests > 0 => disconnectCalls > 0

\* C6 as amended: every exit of the main loop (a failed publish or any other
\* exception) calls disconnect() once before its reset request; a failed
\* connect() at boot issues its reset request with no disconnect() call.
C6_DisconnectBeforeLoopReset ==
    /\ resetRequests <= 1
    /\ disconnectCalls <= 1
    /\ pc = "machine_reset" => disconnectCalls = 1
    /\ (resetRequests > 0 /\ fault # "connect") => disconnectCalls = 1
    /\ fault = "connect" => disconnectCalls = 0
    /\ fault \in {"publish", "sensor", "probe"}
          => pc \in {"disconnect", "machine_reset", "sw_reset", "terminated",
                     "hw_reset"}

\* C6 witness: a raise while reading the sensor in the main loop ended in
\* disconnect() followed by the reset request.
C6_Witness ==
    /\ fault = "sensor"
    /\ pc = "sw_reset"
    /\ disconnectCalls = 1
    /\ resetRequests = 1

\* C7: once disconnect() has been attempted the script never ends without
\* having issued the reset request.
C7_NoTerminationWithoutReset ==
    "disconnect" \in done => pc # "terminated"

\* C8: while the device runs, the time since the last feed (or since arming)
\* is below the watchdog timeout; a sleep that takes the unfed time to the
\* timeout ends in the hardware reset, inside an unfinished wait cycle, and
\* nothing is executed after that reset.
C8_WatchdogBound ==
    /\ [](Running => unfed < WDT_TIMEOUT)
    /\ [](pc = "hw_reset" => unfed = WDT_TIMEOUT)
    /\ []((pc = "hw_reset" /\ ev \in {"sleep", "probe_oserror", "feed",
                                       "tick_end"} /\ fault = "none")
             => (ev = "sleep" /\ interval < PUBLISH_INTERVAL))
    /\ [][(pc = "sleep" /\ unfed + 1 >= WDT_TIMEOUT /\ pc' # pc)
             => (pc' = "hw_reset" /\ interval' < PUBLISH_INTERVAL)]_vars
    /\ [][pc = "hw_reset" => UNCHANGED vars]_vars

\* C8 witness: with PUBLISH_INTERVAL = 2 and no network call ever blocking,
\* Unreachable probes across several wait cycles ended in the hardware reset
\* during a sleep.
C8_Witness ==
    /\ pc = "hw_reset"
    /\ PUBLISH_INTERVAL = 2
    /\ ~stalled
    /\ fault = "none"
    /\ probeResult = "Unreachable"
    /\ ev = "sleep"

\* C9: with PUBLISH_INTERVAL >= 1, if from some point on no probe reports
\* Reachable, the device is eventually reset.
C9_OutageEndsInReset ==
    (PUBLISH_INTERVAL >= 1)
        => (<>[](probeResult # "Reachable") => <>(pc \in ResetStates))

\* C9 witness: the watchdog reset the device after the latest probe of a
\* second or later wait cycle failed.
C9_Witness ==
    /\ pc = "hw_reset"
    /\ PUBLISH_INTERVAL = 1
    /\ "feed" \in done
    /\ probeResult = "Unreachable"
    /\ fault = "none"

\* C10: with PUBLISH_INTERVAL >= 1, while every probe has reported Reachable,
\* no network call has blocked and the main loop has not been left, the
\* watchdog has not expired and at most one second has passed since the last
\* feed (or since arming).
C10_HealthyLinkNeverExpires ==
    (PUBLISH_INTERVAL >= 1 /\ ~stalled /\ probesAllOk /\ fault = "none")
        => (pc # "hw_reset" /\ unfed <= 1)

\* C10 witness: first tick of a later wait cycle on a healthy link, one
\* second after the previous cycle's last feed.
C10_Witness ==
    /\ PUBLISH_INTERVAL >= 1
    /\ ~stalled
    /\ probesAllOk
    /\ fault = "none"
    /\ "feed" \in done
    /\ pc = "probe"
    /\ probes = 0
    /\ unfed = 1

\* Positions of the main loop: the publish phase and the wait cycle.
LoopPositions ==
    {"loop_top", "pub_telemetry", "pub_measurement", "sleep", "probe", "feed",
     "tick_end"}

\* C11: a probe that fails with OSError only withholds the feed: it goes on
\* to the counter increment with the counter, the fault state, the
\* connect / disconnect / reset calls and the countdown untouched, and the
\* counter then advances by one per probe and decides the loop exactly as
\* after a Reachable probe.
C11_UnreachableOnlyWithholdsFeed ==
    /\ [][(pc = "probe" /\ ev' = "probe_oserror")
             => (/\ pc' = "tick_end"
                 /\ probeResult' = "Unreachable"
                 /\ UNCHANGED <<interval, fault, calls, wdt, pubs, feeds>>)]_vars
    /\ [][(pc = "tick_end" /\ pc' # pc)
             => (/\ interval' = interval + 1
                 /\ pc' = IF interval + 1 < PUBLISH_INTERVAL
                            THEN "sleep" ELSE "loop_top")]_vars
    /\ [](pc = "tick_end" => probes = interval + 1)
    /\ [](pc = "sleep" => probes = interval)
    /\ []((probeResult = "Unreachable" /\ pc = "tick_end")
             => feedsSinceProbe = 0)

\* C11 witness: a wait cycle of 3 ticks whose probes were all Unreachable
\* ran to its end and the program is back at the top of the loop.
C11_Witness ==
    /\ PUBLISH_INTERVAL = 3
    /\ pc = "loop_top"
    /\ probes = 3
    /\ reachables = 0
    /\ probeResult = "Unreachable"
    /\ fault = "none"
    /\ disconnectCalls = 0
    /\ resetRequests = 0

\* C12: the probe never raises to the main loop: its outcome is Reachable or
\* Unreachable and no fault is ever caused by a probe.
C12_ProbeNeverRaises ==
    /\ probeResult \in {"none", "Reachable", "Unreachable"}
    /\ fault # "probe"

\* C13: from the connect() call onwards the watchdog is armed with its
\* 5 second timeout, and connect() is never called before it is armed.
C13_ArmedFromConnecting ==
    /\ pc \notin {"wifi", "arm"} => wdt_timeout = WDT_TIMEOUT
    /\ pc \in {"wifi", "arm"} => (wdt_timeout = 0 /\ connectCalls = 0)
    /\ connectCalls > 0 => wdt_timeout = WDT_TIMEOUT
    /\ pc \in Blocking => Expires \/ unfed + 1 < WDT_TIMEOUT

\* C13 witness: disconnect() in the finally: block has been blocking for a
\* while with the countdown one second from the timeout.
C13_Witness ==
    /\ pc = "disconnect"
    /\ stalled
    /\ wdt_timeout = WDT_TIMEOUT
    /\ unfed = WDT_TIMEOUT - 1

\* C14: the countdown is restarted only by the wdt.feed() statement of a
\* wait tick, right after a successful probe; no step taken at boot, in
\* connect(), in the publish phase or in the finally: block feeds.
C14_FeedOnlyInWaitTick ==
    /\ [][unfed' < unfed => (pc = "feed" /\ pc' = "tick_end")]_vars
    /\ [][("feed" \in done' /\ "feed" \notin done) => pc = "feed"]_vars
    /\ [][feedsSinceProbe' > feedsSinceProbe => pc = "feed"]_vars
    /\ [][(pc \in {"wifi", "arm", "connect", "sensor_init", "loop_top",
                   "pub_telemetry", "pub_measurement", "disconnect",
                   "machine_reset", "terminated"})
             => (unfed' >= unfed /\ feedsSinceProbe' = feedsSinceProbe)]_vars
    /\ [](pc = "feed" => ev = "probe_ok")

\* C14 witness: a successful telemetry publish two seconds after the last
\* feed left the countdown where it was.
C14_Witness ==
    /\ pc = "pub_measurement"
    /\ ev = "publish_ok"
    /\ ~stalled
    /\ "feed" \in done
    /\ unfed = 2

\* C15: connect() is called at most once per boot, and after a failed
\* publish() neither publish() nor connect() is called again: the failed
\* publish is the last one and only the finally: block follows.
C15_NoRetry ==
    /\ connectCalls <= 1
    /\ \A i \in 1..(Len(pubs) - 1) : pubs[i].ok
    /\ fault = "connect" => pc = "sw_reset"
    /\ fault = "publish" =>
          /\ pc \in {"disconnect", "machine_reset", "sw_reset", "terminated",
                     "hw_reset"}
          /\ Len(pubs) >= 1
          /\ ~pubs[Len(pubs)].ok
          /\ ev \in {"publish_fail", "disconnect_ok", "disconnect_fail",
                     "machine_reset"}

\* C15 witness: the measurement publish failed and the boot ended in the
\* reset request after a single connect().
C15_Witness ==
    /\ fault = "publish"
    /\ pc = "sw_reset"
    /\ Len(pubs) = 2
    /\ connectCalls = 1

\* C16: in a wait cycle the feeds equal the Reachable probes (one feed may
\* be pending right after a Reachable probe); for PUBLISH_INTERVAL >= 1 a
\* completed cycle has made PUBLISH_INTERVAL probes, and every wait cycle
\* starts right after one successful telemetry and one successful
\* measurement publish.
C16_FeedsEqualReachables ==
    /\ reachables <= probes
    /\ pc # "feed" => feeds = reachables
    /\ pc = "feed" => feeds + 1 = reachables
    /\ (PUBLISH_INTERVAL >= 1 /\ waited
          /\ pc \in {"loop_top", "pub_telemetry", "pub_measurement"})
          => (probes = PUBLISH_INTERVAL /\ feeds = reachables)
    /\ (pc = "sleep" /\ interval = 0)
          => /\ Len(pubs) = 2
             /\ pubs[1].category = "telemetry" /\ pubs[1].ok
             /\ pubs[2].category = "measurement" /\ pubs[2].ok
             /\ probes = 0 /\ feeds = 0

\* C16 witness: after a completed cycle of 3 ticks with probes Reachable,
\* Unreachable, Unreachable and one feed, the telemetry of the next phase
\* has been published.
C16_Witness ==
    /\ PUBLISH_INTERVAL = 3
    /\ pc = "pub_measurement"
    /\ probes = 3
    /\ reachables = 1
    /\ feeds = 1
    /\ unfed = 2
    /\ Len(pubs) = 1

\* C17: a failed publish or sensor read in the main loop takes the program
\* out of the loop for good and, once the script has stopped, a reset request
\* has been issued; a probe that did not report Reachable is followed by no
\* feed.
C17_NoFailureIgnored ==
    /\ fault \in {"publish", "sensor"} =>
          /\ pc \notin LoopPositions
          /\ pc \in {"sw_reset", "terminated"} => resetRequests = 1
    /\ probeResult \in {"Unreachable", "Raised"} => feedsSinceProbe = 0

\* C18: every message sent has the form
\* <category>,deviceId=<id>,deviceType=<type>,deviceVersion=<version> <fields>
\* built from its category, its field string and the configuration alone, so
\* equal inputs give equal messages whatever the state of the loop.
C18_MessageIsPureFormat ==
    /\ \A i \in DOMAIN pubs :
          pubs[i].m = <<pubs[i].category, ",deviceId=", MQTT_CLIENT_ID,
                        ",deviceType=", DEVICE_TYPE, ",deviceVersion=",
                        VERSION, " ">> \o pubs[i].message
    /\ \A i, j \in DOMAIN pubs :
          (pubs[i].category = pubs[j].category
             /\ pubs[i].message = pubs[j].message) => pubs[i].m = pubs[j].m

\* C18 witness: a telemetry message sent in a later cycle, in the middle of
\* the countdown, with the wait counter at the end of its range.
C18_Witness ==
    /\ pc = "pub_measurement"
    /\ PUBLISH_INTERVAL = 2
    /\ interval = 2
    /\ unfed = 1
    /\ Len(pubs) = 1
    /\ pubs[1].message[2] = "0:00:00:07"
    /\ pubs[1].m[1] = "telemetry"

\* C19: publish() is called only after the one successful connect() and
\* before any disconnect(); disconnect() is called only after a fault of the
\* main loop, never inside the loop and never after a failed connect().
C19_SessionDiscipline ==
    /\ pc \in {"pub_telemetry", "pub_measurement"}
          => (connectCalls = 1 /\ fault = "none" /\ disconnectCalls = 0)
    /\ "publish" \in done => (connectCalls = 1 /\ fault # "connect")
    /\ pc \in LoopPositions => disconnectCalls = 0
    /\ disconnectCalls > 0 =>
          /\ fault \in {"publish", "sensor", "probe"}
          /\ connectCalls = 1
          /\ pc \in {"machine_reset", "sw_reset", "terminated", "hw_reset"}
          /\ ev \in {"disconnect_ok", "disconnect_fail", "machine_reset"}
    /\ fault \in {"connect", "sensor_init"} => disconnectCalls = 0

\* C19 witness: disconnect() has been called in the finally: block after a
\* probe raised, on a session that had published.
C19_Witness ==
    /\ pc = "machine_reset"
    /\ disconnectCalls = 1
    /\ fault = "probe"
    /\ "publish" \in done
    /\ connectCalls = 1

\* C20: with PUBLISH_INTERVAL <= 0 the wait loop never runs: no sleep, probe
\* or feed is ever executed, a successful measurement publish leads straight
\* to the top of the loop, and the armed countdown is never restarted.
C20_NonPositiveIntervalNeverFeeds ==
    PUBLISH_INTERVAL <= 0 =>
        /\ done \cap {"sleep", "probe", "feed"} = {}
        /\ pc \notin {"sleep", "probe", "feed", "tick_end"}
        /\ probeResult = "none"
        /\ sleeps = 0 /\ probes = 0 /\ feeds = 0 /\ feedsSinceProbe = 0
        /\ interval = 0
        /\ (ev = "publish_ok" /\ Len(pubs) = 2) => pc \in {"loop_top", "hw_reset"}

\* C20 witness: with a negative PUBLISH_INTERVAL the second publish phase is
\* under way, the watchdog is armed and nothing but connect and publish has
\* been executed.
C20_Witness ==
    /\ PUBLISH_INTERVAL < 0
    /\ waited
    /\ pc = "pub_measurement"
    /\ wdt_timeout = WDT_TIMEOUT
    /\ done = {"connect", "publish"}

====
